---- MODULE Spec2Model ----
(***************************************************************************)
(* Browser-side client of the scheduling assistant (src/static/js/chat.js). *)
(*                                                                         *)
(* Strings are sequences of one-character strings, so that includes(),     *)
(* split(), trim() and join() are computed as JavaScript computes them.    *)
(* The DOM is modelled by what the handlers read and write: the children   *)
(* of #chat-container (chat), the class list and the children of the       *)
(* entity panel, and the checkboxes of the rendered option controls.       *)
(* Every handler (a DOM event listener or a promise callback) is one       *)
(* action: the event loop runs each of them to completion.                 *)
(***************************************************************************)
EXTENDS Integers, Sequences, FiniteSets, TLC

VARIABLES
  chat,             \* children of #chat-container, in document order
  selectedOptions,  \* the Set of setupEmailOptionListeners, in insertion order
  panelHidden,      \* #entity-panel carries the class "hidden"
  entityDisplay,    \* children of #entity-display: [groups, complete]
  inflight,         \* fetch('/message') calls not yet settled
  resetsInflight,   \* fetch('/reset') calls not yet settled
  issued,           \* number of fetch('/message') calls made so far
  resetsIssued,     \* number of fetch('/reset') calls made so far
  ev                \* the handler that ran last, with the steps it took in order

vars == <<chat, selectedOptions, panelHidden, entityDisplay, inflight,
          resetsInflight, issued, resetsIssued, ev>>

----------------------------------------------------------------------------
(* Bounds of the model. *)

\* fetch('/message') calls issued in one run
MaxCalls == 3
\* fetch('/reset') calls issued in one run
MaxResets == 1
\* selection widgets in the transcript at the same time
MaxWidgets == 2
\* lines in the option block of a generated selection prompt
MaxLines == 3

----------------------------------------------------------------------------
(* String literals of the source. *)

MultipleContacts ==
  <<"M","u","l","t","i","p","l","e"," ","c","o","n","t","a","c","t","s"," ","f","o","u","n","d",
    " ","f","o","r">>

PleaseSelect ==
  <<"P","l","e","a","s","e"," ","s","e","l","e","c","t"," ","o","n","e"," ","o","r"," ","m","o",
    "r","e"," ","b","y"," ","n","u","m","b","e","r">>

\* the tail of formattedIntro
IntroHint ==
  <<" ","P","l","e","a","s","e"," ","s","e","l","e","c","t"," ","o","n","e"," ","o","r"," ","m",
    "o","r","e"," ","b","y"," ","n","u","m","b","e","r"," ","(","e",".","g",".",","," ","\"",
    "1","\"",","," ","\"","2","\"",","," ","\"","1"," ","a","n","d"," ","2","\"",","," ","o",
    "r"," ","\"","a","l","l","\"",")",":">>

DotSpace == <<"."," ">>

Newline == <<"\n">>

AndWord == <<" ","a","n","d"," ">>

\* what a template literal prints for the value undefined
UndefinedText == <<"u","n","d","e","f","i","n","e","d">>

WelcomeText ==
  <<"H","e","l","l","o","!"," ","I","'","m"," ","y","o","u","r"," ","s","c","h","e","d","u","l",
    "i","n","g"," ","a","s","s","i","s","t","a","n","t","."," ","H","o","w"," ","c","a","n"," ",
    "I"," ","h","e","l","p"," ","y","o","u"," ","t","o","d","a","y","?">>

MessageApology ==
  <<"S","o","r","r","y",","," ","t","h","e","r","e"," ","w","a","s"," ","a","n"," ","e","r","r",
    "o","r"," ","p","r","o","c","e","s","s","i","n","g"," ","y","o","u","r"," ","m","e","s","s",
    "a","g","e","."," ","P","l","e","a","s","e"," ","t","r","y"," ","a","g","a","i","n",".">>

ResetApology ==
  <<"S","o","r","r","y",","," ","t","h","e","r","e"," ","w","a","s"," ","a","n"," ","e","r","r",
    "o","r"," ","r","e","s","e","t","t","i","n","g"," ","t","h","e"," ","c","h","a","t","."," ",
    "P","l","e","a","s","e"," ","t","r","y"," ","a","g","a","i","n",".">>

\* Op(v), with v evaluated once and bound to Op's parameter
Bind(v, Op(_)) == CHOOSE r \in {Op(x) : x \in {v}} : TRUE

\* a value that is not a string (undefined, null, a number): a sequence that
\* is no sequence of characters
NotAString == <<"not a string">>

IsString(v) == v # NotAString

----------------------------------------------------------------------------
(* String.prototype methods, on sequences of characters. *)

\* s.startsWith(sub, i - 1)
MatchesAt(s, sub, i) ==
  /\ i >= 1
  /\ i + Len(sub) - 1 <= Len(s)
  /\ \A k \in 1..Len(sub) : s[i + k - 1] = sub[k]

\* s.includes(sub)
Includes(s, sub) == \E i \in 1..(Len(s) + 1) : MatchesAt(s, sub, i)

\* s.indexOf(sub, from - 1) + 1: the first place at or after from, 0 if none
RECURSIVE IndexOf(_, _, _)
IndexOf(s, sub, from) ==
  IF from + Len(sub) - 1 > Len(s) THEN 0
  ELSE IF MatchesAt(s, sub, from) THEN from
  ELSE IndexOf(s, sub, from + 1)

\* s.split(sep), for a non-empty separator: every piece, in order
RECURSIVE Split(_, _)
Split(s, sep) ==
  LET i == IndexOf(s, sep, 1) IN
  IF i = 0 THEN <<s>>
  ELSE <<SubSeq(s, 1, i - 1)>> \o Split(SubSeq(s, i + Len(sep), Len(s)), sep)

\* s.split(sep, limit): the first limit pieces of s.split(sep), the rest dropped
SplitLimit(s, sep, limit) ==
  LET all == Split(s, sep) IN
  IF Len(all) <= limit THEN all ELSE SubSeq(all, 1, limit)

\* the white space String.prototype.trim() strips, of the characters modelled
IsWhiteSpace(c) == c \in {" ", "\n", "\t"}

RECURSIVE TrimStart(_)
TrimStart(s) ==
  IF s # <<>> /\ IsWhiteSpace(Head(s)) THEN TrimStart(Tail(s)) ELSE s

RECURSIVE TrimEnd(_)
TrimEnd(s) ==
  IF s # <<>> /\ IsWhiteSpace(s[Len(s)]) THEN TrimEnd(SubSeq(s, 1, Len(s) - 1)) ELSE s

\* s.trim()
Trim(s) == TrimEnd(TrimStart(s))

\* parts.join(sep)
RECURSIVE Join(_, _)
Join(parts, sep) ==
  IF parts = <<>> THEN <<>>
  ELSE IF Len(parts) = 1 THEN parts[1]
  ELSE parts[1] \o sep \o Join(Tail(parts), sep)

\* the serialisation of one character of a text node (div.innerHTML)
EscapeChar(c) ==
  CASE c = "&" -> <<"&","a","m","p",";">>
    [] c = "<" -> <<"&","l","t",";">>
    [] c = ">" -> <<"&","g","t",";">>
    [] OTHER -> <<c>>

RECURSIVE EscapeText(_)
EscapeText(s) ==
  IF s = <<>> THEN <<>> ELSE EscapeChar(Head(s)) \o EscapeText(Tail(s))

\* escapeHtml returning its argument as it is
escapeHtmlRaw(html) == IF ~IsString(html) THEN <<>> ELSE html

escapeHtml(html) == IF ~IsString(html) THEN <<>> ELSE EscapeText(html)

----------------------------------------------------------------------------
(* The regular expression of formatEmailSelectionMessage's second branch:  *)
(*   /([A-Za-z\s]+)\s+\(([a-zA-Z0-9._%+-]+@[a-zA-Z0-9.-]+\.[a-zA-Z]{2,})\)/g *)

Letters ==
  {"a","b","c","d","e","f","g","h","i","j","k","l","m","n","o","p","q","r","s","t","u","v","w",
   "x","y","z",
   "A","B","C","D","E","F","G","H","I","J","K","L","M","N","O","P","Q","R","S","T","U","V","W",
   "X","Y","Z"}

Digits == {"0","1","2","3","4","5","6","7","8","9"}

\* [A-Za-z\s]
IsNameChar(c) == c \in Letters \/ IsWhiteSpace(c)

\* [a-zA-Z0-9._%+-]
IsLocalChar(c) == c \in Letters \cup Digits \cup {".", "_", "%", "+", "-"}

\* [a-zA-Z0-9.-]
IsDomainChar(c) == c \in Letters \cup Digits \cup {".", "-"}

SpanNameOpen ==
  <<"<","s","p","a","n"," ","c","l","a","s","s","=","\"","t","e","x","t","-","b","l","u","e",
    "-","7","0","0"," ","f","o","n","t","-","m","e","d","i","u","m","\"",">">>

SpanNameCloseEmailOpen ==
  <<"<","/","s","p","a","n",">"," ","<","s","p","a","n"," ","c","l","a","s","s","=","\"","t",
    "e","x","t","-","b","l","u","e","-","5","0","0"," ","t","e","x","t","-","s","m","\"",">","(">>

SpanEmailClose == <<")","<","/","s","p","a","n",">">>

\* the last position of the run of characters satisfying the class that
\* starts at i (i - 1 when s[i] is not in the class)
RECURSIVE NameRunEnd(_, _)
NameRunEnd(s, i) ==
  IF i <= Len(s) /\ IsNameChar(s[i]) THEN NameRunEnd(s, i + 1) ELSE i - 1

RECURSIVE LocalRunEnd(_, _)
LocalRunEnd(s, i) ==
  IF i <= Len(s) /\ IsLocalChar(s[i]) THEN LocalRunEnd(s, i + 1) ELSE i - 1

RECURSIVE DomainRunEnd(_, _)
DomainRunEnd(s, i) ==
  IF i <= Len(s) /\ IsDomainChar(s[i]) THEN DomainRunEnd(s, i + 1) ELSE i - 1

\* The match of the expression that starts at i, as
\* [found, nameEnd, emailStart, emailEnd, end]. The classes [A-Za-z\s],
\* [a-zA-Z0-9._%+-] and [a-zA-Z0-9.-] exclude "(", "@" and ")", so each
\* greedy run must end right before that character; the top-level domain is
\* what follows the last "." of the domain run.
MatchAt(s, i) ==
  LET e  == NameRunEnd(s, i)
      l  == LocalRunEnd(s, e + 2)
      q  == DomainRunEnd(s, l + 2)
      dots == {d \in (l + 2)..q : s[d] = "."}
      d  == IF dots = {} THEN 0 ELSE CHOOSE x \in dots : \A y \in dots : y <= x
      ok == /\ e >= i + 1
            /\ IsWhiteSpace(s[e])
            /\ e + 1 <= Len(s) /\ s[e + 1] = "("
            /\ l >= e + 2
            /\ l + 1 <= Len(s) /\ s[l + 1] = "@"
            /\ d > l + 2
            /\ q - d >= 2
            /\ \A k \in (d + 1)..q : s[k] \in Letters
            /\ q + 1 <= Len(s) /\ s[q + 1] = ")"
  IN [found |-> ok, nameEnd |-> e - 1, emailStart |-> e + 2, emailEnd |-> q,
      end |-> q + 1]

\* message.replace(/.../g, '<span ...>$1</span> <span ...>($2)</span>'),
\* scanning from position pos
RECURSIVE ReplaceEmails(_, _)
ReplaceEmails(s, pos) ==
  LET starts == {i \in pos..Len(s) : MatchAt(s, i).found} IN
  IF starts = {} THEN SubSeq(s, pos, Len(s))
  ELSE LET i == CHOOSE x \in starts : \A y \in starts : x <= y
           m == MatchAt(s, i)
       IN SubSeq(s, pos, i - 1)
            \o SpanNameOpen \o SubSeq(s, i, m.nameEnd)
            \o SpanNameCloseEmailOpen \o SubSeq(s, m.emailStart, m.emailEnd)
            \o SpanEmailClose
            \o ReplaceEmails(s, m.end + 1)

----------------------------------------------------------------------------
(* formatEmailSelectionMessage: the markup of a bot message. The markup is  *)
(* kept as the elements the browser builds from it: the text of the         *)
(* paragraph (html), and for a selection prompt the intro paragraph, one    *)
(* .email-option button per forEach round, and the buttons #select-all and  *)
(* #submit-selection.                                                       *)

IsSelectionPrompt(message) ==
  Includes(message, MultipleContacts) /\ Includes(message, PleaseSelect)

IsEmailAnnotated(message) ==
  Includes(message, <<"@">>) /\ Includes(message, <<"(">>) /\ Includes(message, <<")">>)

\* const [number, details] = option.split('. ', 2), then the button of the
\* round: data-number and an unchecked checkbox
OptionControl(option) ==
  LET parts == SplitLimit(option, DotSpace, 2) IN
  [number  |-> parts[1],
   details |-> IF Len(parts) >= 2 THEN parts[2] ELSE UndefinedText,
   checked |-> FALSE]

\* const [introText, optionsText] = message.split('Please select ...')
IntroText(message) == Split(message, PleaseSelect)[1]

OptionsText(message) == Split(message, PleaseSelect)[2]

\* optionsText.trim().split('\n')
OptionLines(message) == Split(Trim(OptionsText(message)), Newline)

\* the two tests in the other order: the test for "@" and parentheses first
formatEmailFirst(message) ==
  IF ~IsString(message) THEN
    [throws |-> TRUE, cls |-> "none", html |-> <<>>, options |-> <<>>,
     selectAll |-> 0, submit |-> 0]
  ELSE IF IsEmailAnnotated(message) THEN
    [throws |-> FALSE, cls |-> "email", html |-> ReplaceEmails(message, 1),
     options |-> <<>>, selectAll |-> 0, submit |-> 0]
  ELSE IF IsSelectionPrompt(message) THEN
    [throws |-> FALSE, cls |-> "selection",
     html |-> IntroText(message) \o IntroHint,
     options |-> Bind(OptionLines(message),
                      LAMBDA options : [k \in 1..Len(options) |-> OptionControl(options[k])]),
     selectAll |-> 1, submit |-> 1]
  ELSE
    [throws |-> FALSE, cls |-> "plain", html |-> escapeHtml(message),
     options |-> <<>>, selectAll |-> 0, submit |-> 0]

formatEmailSelectionMessage(message) ==
  IF ~IsString(message) THEN
    \* message.includes is not a function: TypeError
    [throws |-> TRUE, cls |-> "none", html |-> <<>>, options |-> <<>>,
     selectAll |-> 0, submit |-> 0]
  ELSE IF IsSelectionPrompt(message) THEN
    [throws |-> FALSE, cls |-> "selection",
     html |-> IntroText(message) \o IntroHint,
     options |-> Bind(OptionLines(message),
                      LAMBDA options : [k \in 1..Len(options) |-> OptionControl(options[k])]),
     selectAll |-> 1, submit |-> 1]
  ELSE IF IsEmailAnnotated(message) THEN
    [throws |-> FALSE, cls |-> "email", html |-> ReplaceEmails(message, 1),
     options |-> <<>>, selectAll |-> 0, submit |-> 0]
  ELSE
    [throws |-> FALSE, cls |-> "plain", html |-> escapeHtml(message),
     options |-> <<>>, selectAll |-> 0, submit |-> 0]

----------------------------------------------------------------------------
(* The values the model draws for what the user types and the server sends. *)

HiText == <<"h","i">>

OkText == <<"o","k">>

GreetingText ==
  <<"C","o","n","v","e","r","s","a","t","i","o","n"," ","r","e","s","e","t",".">>

\* a selection prompt whose option block starts right after the marker
PromptAB ==
  <<"M","u","l","t","i","p","l","e"," ","c","o","n","t","a","c","t","s"," ","f","o","u","n","d",
    " ","f","o","r"," ","J","."," ","P","l","e","a","s","e"," ","s","e","l","e","c","t"," ","o",
    "n","e"," ","o","r"," ","m","o","r","e"," ","b","y"," ","n","u","m","b","e","r","\n","1",
    "."," ","A","\n","2","."," ","B">>

\* the message of the spec's section 8
JaneMsg ==
  <<"M","u","l","t","i","p","l","e"," ","c","o","n","t","a","c","t","s"," ","f","o","u","n","d",
    " ","f","o","r"," ","J","a","n","e","."," ","P","l","e","a","s","e"," ","s","e","l","e","c",
    "t"," ","o","n","e"," ","o","r"," ","m","o","r","e"," ","b","y"," ","n","u","m","b","e","r",
    " ","(","e",".","g",".",","," ",".",".",".",")",":","\n","1","."," ","J","a","n","e"," ",
    "D","o","e"," ","(","j","a","n","e","@","x",".","c","o","m",")","\n","2","."," ","J","a",
    "n","e"," ","R","o","e"," ","(","j","a","n","e","2","@","x",".","c","o","m",")">>

\* the lines the option block of a drawn selection prompt is made of: well
\* formed, with a second ". ", without ". ", and empty
LineSet ==
  { <<"1", ".", " ", "A">>, <<"2", ".", " ", "B">>,
    <<"1", ".", " ", "D", "r", ".", " ", "C">>, <<"x">>, <<"3", ".">>, <<>> }

OptionBlocks == UNION { [1..n -> LineSet] : n \in 1..MaxLines }

PromptHead == MultipleContacts \o <<" ", "J", ".", " ">> \o PleaseSelect

\* the bot messages drawn for the formatter: the message of section 8 and a
\* prompt for each option block
FmtInputs ==
  {JaneMsg} \cup { PromptHead \o Newline \o Join(b, Newline) : b \in OptionBlocks }

\* a name with an address the regular expression matches
AnnMsg == <<"A","n","n"," ","(","a","@","b",".","c","o",")">>

\* "@" and both parentheses, the closing one first: nothing matches
ReversedMsg == <<")","<","a","@","b","(">>

\* the first phrase of a selection prompt without the second, with an address
LookupMsg == MultipleContacts \o <<" ">> \o AnnMsg

\* the second phrase of a selection prompt without the first
SelectOnlyMsg == PleaseSelect \o Newline \o <<"1", ".", " ", "A">>

\* "@" without a parenthesis
AtMsg == <<"a","@","b">>

\* parentheses and markup without "@"
MarkupMsg == <<"(","x",")"," ","<","b",">">>

\* a selection prompt in which the marker occurs a second time
TwiceMarkedMsg ==
  PromptHead \o Newline \o <<"1", ".", " ", "A", " ">> \o PleaseSelect
    \o Newline \o <<"2", ".", " ", "B">>

\* the bot messages drawn for the classes of the formatter
ClassInputs ==
  {OkText, AnnMsg, ReversedMsg, LookupMsg, SelectOnlyMsg, AtMsg, MarkupMsg, TwiceMarkedMsg}

\* messageInput.value at a submit: empty, white space only, or text
FormValues == {<<>>, <<" ", " ">>, HiText, <<" ">> \o HiText}

\* data.entities: absent, or the entries of the mapping in order. A value
\* list is an array of strings (none of them holds "(", so emailMatch is
\* null and the regular tag is built) or, isArray FALSE, a non-empty string.
NoEntities == [present |-> FALSE, entries |-> <<>>]

EmptyEntities == [present |-> TRUE, entries |-> <<>>]

DateEntities ==
  [present |-> TRUE,
   entries |-> <<[type |-> "DATE", isArray |-> TRUE, values |-> <<"Monday">>],
                 [type |-> "ATTENDEE", isArray |-> TRUE, values |-> <<>>]>>]

TimeEntities ==
  [present |-> TRUE,
   entries |-> <<[type |-> "TIME", isArray |-> TRUE, values |-> <<"noon">>]>>]

StringEntities ==
  [present |-> TRUE,
   entries |-> <<[type |-> "DURATION", isArray |-> TRUE, values |-> <<"1h">>],
                 [type |-> "ATTENDEE", isArray |-> FALSE, values |-> <<"x">>]>>]

EntityPayloads ==
  {NoEntities, EmptyEntities, DateEntities, TimeEntities, StringEntities}

\* data.response of the message endpoint
ServerTexts == {OkText, PromptAB}

\* How a fetch settles: the promise rejects (net = "reject"), or resolves
\* with a status and a body that response.json() rejects (body =
\* "malformed") or parses into data.
NoOutcome ==
  [net |-> "none", status |-> 0, body |-> "none", response |-> NotAString,
   entities |-> NoEntities, complete |-> FALSE]

\* the bodies that parse: every entity payload with either value of
\* complete under a plain text, a selection prompt, and a body without a
\* response string
JsonBodies ==
  [response : {OkText}, entities : EntityPayloads, complete : BOOLEAN]
  \cup [response : (ServerTexts \ {OkText}) \cup {NotAString}, entities : {NoEntities},
        complete : {FALSE}]

Resolved(status, body, data) ==
  [net |-> "resolve", status |-> status, body |-> body, response |-> data.response,
   entities |-> data.entities, complete |-> data.complete]

\* a 5xx answer carries an error page, or a JSON body like any other
ErrorBodies ==
  { [response |-> OkText, entities |-> NoEntities, complete |-> FALSE],
    [response |-> OkText, entities |-> DateEntities, complete |-> TRUE] }

MessageOutcomes ==
  { [NoOutcome EXCEPT !.net = "reject"] }
  \cup { Resolved(st, "malformed", NoOutcome) : st \in {200, 500} }
  \cup { Resolved(200, "json", d) : d \in JsonBodies }
  \cup { Resolved(500, "json", d) : d \in ErrorBodies }

ResetOutcomes ==
  { [NoOutcome EXCEPT !.net = "reject"] }
  \cup { Resolved(st, "malformed", NoOutcome) : st \in {200, 500} }
  \cup { Resolved(200, "json", [response |-> r, entities |-> NoEntities,
                                complete |-> FALSE]) : r \in {GreetingText, NotAString} }

\* the promise chain reaches .then(data => ...)
Parsed(outcome) == outcome.net = "resolve" /\ outcome.body = "json"

----------------------------------------------------------------------------
(* The Set selectedOptions, kept in insertion order. *)

SetHas(set, x) == \E k \in 1..Len(set) : set[k] = x

\* an add that puts a new value ahead of the values the Set holds
SetAddFront(set, x) == IF SetHas(set, x) THEN set ELSE <<x>> \o set

SetAdd(set, x) == IF SetHas(set, x) THEN set ELSE Append(set, x)

SetDelete(set, x) == SelectSeq(set, LAMBDA y : y # x)

----------------------------------------------------------------------------
(* The children of #chat-container. *)

ThinkingText == <<"T","h","i","n","k","i","n","g">>

\* addUserMessage's element
UserElement(message) ==
  [kind |-> "user", html |-> escapeHtml(message), options |-> <<>>,
   selectAll |-> 0, submit |-> 0]

\* the submit handler's div#typing-indicator
TypingElement ==
  [kind |-> "typing", html |-> ThinkingText, options |-> <<>>,
   selectAll |-> 0, submit |-> 0]

\* addBotMessage's element around the formatted message
BotElement(formatted) ==
  [kind |-> "bot", html |-> formatted.html, options |-> formatted.options,
   selectAll |-> formatted.selectAll, submit |-> formatted.submit]

addUserMessage(c, message) == Append(c, UserElement(message))

\* formatEmailSelectionMessage(message), computed once for each of the
\* messages the model draws
FormattedTexts ==
  {WelcomeText, MessageApology, ResetApology, GreetingText, NotAString}
    \cup ServerTexts \cup FmtInputs \cup ClassInputs

FormattedTable == [m \in FormattedTexts |-> formatEmailSelectionMessage(m)]

Formatted(message) ==
  IF message \in FormattedTexts THEN FormattedTable[message]
  ELSE formatEmailSelectionMessage(message)

\* formatEmailSelectionMessage runs before anything is appended: when it
\* throws, the container is as it was
addBotMessage(c, message) ==
  Bind(Formatted(message),
       LAMBDA formatted :
         [throws |-> formatted.throws,
          chat |-> IF formatted.throws THEN c ELSE Append(c, BotElement(formatted))])

TypingPlaces(c) == {k \in 1..Len(c) : c[k].kind = "typing"}

\* document.getElementById('typing-indicator'): the first in document order
FirstTyping(c) == CHOOSE k \in TypingPlaces(c) : \A m \in TypingPlaces(c) : k <= m

RemoveAt(c, k) == SubSeq(c, 1, k - 1) \o SubSeq(c, k + 1, Len(c))

\* the selection widgets in the container
Widgets(c) == Cardinality({k \in 1..Len(c) : c[k].submit > 0})

\* the removal of the container's first child in place of the indicator
removeFirstChild(c) ==
  IF TypingPlaces(c) = {} THEN c ELSE RemoveAt(c, 1)

\* removeTypingIndicator finding no indicator, whatever is rendered
keepTypingIndicator(c) == c

\* if (typingIndicator) typingIndicator.remove()
removeTypingIndicator(c) ==
  IF TypingPlaces(c) = {} THEN c ELSE RemoveAt(c, FirstTyping(c))

----------------------------------------------------------------------------
(* updateEntityPanel.                                                       *)

GroupElement(entry) == [kind |-> "group", type |-> entry.type, tags |-> entry.values]

CompleteElement == [kind |-> "complete", type |-> "", tags |-> <<>>]

\* the forEach without the test of values.length
RECURSIVE AddGroupsAll(_, _)
AddGroupsAll(entries, display) ==
  IF entries = <<>> THEN [throws |-> FALSE, display |-> display]
  ELSE LET entry == Head(entries) IN
       IF ~entry.isArray THEN [throws |-> TRUE, display |-> display]
       ELSE AddGroupsAll(Tail(entries), Append(display, GroupElement(entry)))

\* Object.entries(entities).forEach: a group per entry whose value list is
\* not empty; values.forEach is not a function when the values are a string,
\* and the TypeError ends the loop with the groups appended so far
RECURSIVE AddGroups(_, _)
AddGroups(entries, display) ==
  IF entries = <<>> THEN [throws |-> FALSE, display |-> display]
  ELSE LET entry == Head(entries) IN
       IF Len(entry.values) > 0
       THEN IF ~entry.isArray THEN [throws |-> TRUE, display |-> display]
            ELSE AddGroups(Tail(entries), Append(display, GroupElement(entry)))
       ELSE AddGroups(Tail(entries), display)

\* updateEntityPanel without its first return: an empty mapping clears
updateEntityPanelNoGuard(hidden, display, entities, isComplete) ==
  Bind(AddGroups(entities.entries, <<>>),
       LAMBDA g :
         [ran |-> TRUE, throws |-> g.throws, hidden |-> FALSE,
          display |-> IF ~g.throws /\ isComplete
                      THEN Append(g.display, CompleteElement) ELSE g.display])

\* updateEntityPanel without entityDisplay.innerHTML = '': the groups and
\* the completion mark are appended to what the panel shows
updateEntityPanelMerges(hidden, display, entities, isComplete) ==
  IF ~entities.present \/ Len(entities.entries) = 0
  THEN [ran |-> FALSE, throws |-> FALSE, hidden |-> hidden, display |-> display]
  ELSE Bind(AddGroups(entities.entries, display),
            LAMBDA g :
              [ran |-> TRUE, throws |-> g.throws, hidden |-> FALSE,
               display |-> IF ~g.throws /\ isComplete
                           THEN Append(g.display, CompleteElement) ELSE g.display])

\* the panel after updateEntityPanel(entities, isComplete), and whether the
\* call got past its first return (ran) and whether it threw
updateEntityPanel(hidden, display, entities, isComplete) ==
  IF ~entities.present \/ Len(entities.entries) = 0
  THEN [ran |-> FALSE, throws |-> FALSE, hidden |-> hidden, display |-> display]
  ELSE Bind(AddGroups(entities.entries, <<>>),
            LAMBDA g :
              [ran |-> TRUE, throws |-> g.throws, hidden |-> FALSE,
               display |-> IF ~g.throws /\ isComplete
                           THEN Append(g.display, CompleteElement) ELSE g.display])

----------------------------------------------------------------------------
(* sendMessage's promise callbacks.                                         *)

RemoveStep(c) == IF TypingPlaces(c) = {} THEN <<>> ELSE <<"removeIndicator">>

\* the catch without the removal of the typing indicator
MessageCatchKeepsIndicator(c, hidden, display, before) ==
  [chat |-> addBotMessage(c, MessageApology).chat,
   hidden |-> hidden, display |-> display,
   steps |-> before \o <<"apology">>]

\* .catch(error => ...), with the steps taken before it
MessageCatch(c, hidden, display, before) ==
  [chat |-> addBotMessage(removeTypingIndicator(c), MessageApology).chat,
   hidden |-> hidden, display |-> display,
   steps |-> before \o RemoveStep(c) \o <<"apology">>]

\* the rest of .then(data => ...) once addBotMessage has returned a
MessageThenPanel(c, a, hidden, display, data) ==
  Bind(updateEntityPanel(hidden, display, data.entities, data.complete),
       LAMBDA u :
         IF u.throws
         THEN MessageCatch(a.chat, u.hidden, u.display,
                           RemoveStep(c) \o <<"botTurn", "entityRefresh", "throw">>)
         ELSE [chat |-> a.chat, hidden |-> u.hidden, display |-> u.display,
               steps |-> RemoveStep(c) \o <<"botTurn">>
                           \o (IF u.ran THEN <<"entityRefresh">> ELSE <<>>)])

\* .then(data => ...), followed by the catch when a statement of it throws
MessageThen(c, hidden, display, data) ==
  Bind(addBotMessage(removeTypingIndicator(c), data.response),
       LAMBDA a :
         IF a.throws
         THEN MessageCatch(a.chat, hidden, display, RemoveStep(c) \o <<"throw">>)
         ELSE MessageThenPanel(c, a, hidden, display, data))

\* how the chain of sendMessage settles: response.json() is reached when the
\* fetch resolves, whatever the status, and .then(data) when the body parses
MessageSettled(c, hidden, display, outcome) ==
  IF Parsed(outcome) THEN MessageThen(c, hidden, display, outcome)
  ELSE MessageCatch(c, hidden, display, <<>>)

----------------------------------------------------------------------------
(* The reset button's promise callbacks.                                    *)

ResetCatch(c, hidden, before) ==
  [chat |-> addBotMessage(c, ResetApology).chat, hidden |-> hidden,
   steps |-> before \o <<"apology">>]

\* the then-callback without chatContainer.innerHTML = ''
ResetThenAppends(c, hidden, data) ==
  Bind(addBotMessage(c, data.response),
       LAMBDA a :
         IF a.throws THEN ResetCatch(c, hidden, <<"throw">>)
         ELSE [chat |-> a.chat, hidden |-> TRUE,
               steps |-> <<"botTurn", "hidePanel">>])

ResetThen(c, hidden, data) ==
  Bind(addBotMessage(<<>>, data.response),
       LAMBDA a :
         IF a.throws THEN ResetCatch(<<>>, hidden, <<"clearChat", "throw">>)
         ELSE [chat |-> a.chat, hidden |-> TRUE,
               steps |-> <<"clearChat", "botTurn", "hidePanel">>])

ResetSettled(c, hidden, outcome) ==
  IF Parsed(outcome) THEN ResetThen(c, hidden, outcome)
  ELSE ResetCatch(c, hidden, <<>>)

----------------------------------------------------------------------------
(* The rendered option controls.                                            *)

\* document.querySelectorAll('.email-option'), as <<element, option>> places
\* in document order
RECURSIVE OptionPlacesFrom(_, _)
OptionPlacesFrom(c, i) ==
  IF i > Len(c) THEN <<>>
  ELSE [j \in 1..Len(c[i].options) |-> <<i, j>>] \o OptionPlacesFrom(c, i + 1)

OptionPlaces(c) == OptionPlacesFrom(c, 1)

OptionAt(c, place) == c[place[1]].options[place[2]]

SetChecked(c, place, value) ==
  [c EXCEPT ![place[1]].options[place[2]].checked = value]

\* the ids of the rendered option controls
RenderedNumbers(c) ==
  {OptionAt(c, OptionPlaces(c)[k]).number : k \in 1..Len(OptionPlaces(c))}

\* Array.from(checkboxes).every(cb => cb.checked)
AllChecked(c) ==
  \A k \in 1..Len(OptionPlaces(c)) : OptionAt(c, OptionPlaces(c)[k]).checked

\* Toggle on an array in place of the Set: add pushes without looking
ToggleAppend(set, number, checked) ==
  IF checked THEN Append(set, number) ELSE SetDelete(set, number)

\* if (checked) selectedOptions.add(number) else selectedOptions.delete(number)
Toggle(set, number, checked) ==
  IF checked THEN SetAdd(set, number) ELSE SetDelete(set, number)

\* the select-all branch without its allChecked test: every box is checked
RECURSIVE CheckAllFrom(_, _, _, _)
CheckAllFrom(c, set, places, allChecked) ==
  IF places = <<>> THEN [chat |-> c, set |-> set]
  ELSE CheckAllFrom(SetChecked(c, Head(places), TRUE),
                    SetAdd(set, OptionAt(c, Head(places)).number),
                    Tail(places), allChecked)

\* checkboxes.forEach of the select-all branch, from place k on
RECURSIVE SelectAllFrom(_, _, _, _)
SelectAllFrom(c, set, places, allChecked) ==
  IF places = <<>> THEN [chat |-> c, set |-> set]
  ELSE SelectAllFrom(SetChecked(c, Head(places), ~allChecked),
                     Toggle(set, OptionAt(c, Head(places)).number, ~allChecked),
                     Tail(places), allChecked)

\* the join with its default separator
SelectionTextCommas(set) == Join(set, <<",">>)

\* Array.from(selectedOptions).join(' and ')
SelectionText(set) == Join(set, AndWord)

----------------------------------------------------------------------------
(* The state after construction, and the handlers.                          *)

NoEvent ==
  [op |-> "load", steps |-> <<>>, text |-> <<>>, number |-> <<>>,
   checked |-> FALSE, call |-> 0, origin |-> "none", outcome |-> NoOutcome]

Call(id, message, origin) == [id |-> id, message |-> message, origin |-> origin]

Init ==
  /\ chat = addBotMessage(<<>>, WelcomeText).chat
  /\ selectedOptions = <<>>
  /\ panelHidden = TRUE
  /\ entityDisplay = <<>>
  /\ inflight = {}
  /\ resetsInflight = 0
  /\ issued = 0
  /\ resetsIssued = 0
  /\ ev = [NoEvent EXCEPT !.steps = <<"botTurn">>]

\* the submit handler with the typing indicator appended ahead of the user
\* message
SubmitIndicatorFirst(value) ==
  LET message == Trim(value) IN
  IF message = <<>>
  THEN /\ ev' = [NoEvent EXCEPT !.op = "submit", !.text = value]
       /\ UNCHANGED <<chat, selectedOptions, panelHidden, entityDisplay, inflight,
                      resetsInflight, issued, resetsIssued>>
  ELSE /\ issued < MaxCalls
       /\ chat' = addUserMessage(Append(chat, TypingElement), message)
       /\ issued' = issued + 1
       /\ inflight' = inflight \cup {Call(issued + 1, message, "form")}
       /\ ev' = [NoEvent EXCEPT !.op = "submit", !.text = message,
                                !.call = issued + 1, !.origin = "form",
                                !.steps = <<"indicator", "userTurn", "call">>]
       /\ UNCHANGED <<selectedOptions, panelHidden, entityDisplay, resetsInflight,
                      resetsIssued>>

\* the submit handler without the trim of the input value
SubmitUntrimmed(value) ==
  LET message == value IN
  IF message = <<>>
  THEN /\ ev' = [NoEvent EXCEPT !.op = "submit", !.text = value]
       /\ UNCHANGED <<chat, selectedOptions, panelHidden, entityDisplay, inflight,
                      resetsInflight, issued, resetsIssued>>
  ELSE /\ issued < MaxCalls
       /\ chat' = Append(addUserMessage(chat, message), TypingElement)
       /\ issued' = issued + 1
       /\ inflight' = inflight \cup {Call(issued + 1, message, "form")}
       /\ ev' = [NoEvent EXCEPT !.op = "submit", !.text = message,
                                !.call = issued + 1, !.origin = "form",
                                !.steps = <<"userTurn", "indicator", "call">>]
       /\ UNCHANGED <<selectedOptions, panelHidden, entityDisplay, resetsInflight,
                      resetsIssued>>

\* messageForm 'submit'
Submit(value) ==
  LET message == Trim(value) IN
  IF message = <<>>
  THEN /\ ev' = [NoEvent EXCEPT !.op = "submit", !.text = value]
       /\ UNCHANGED <<chat, selectedOptions, panelHidden, entityDisplay, inflight,
                      resetsInflight, issued, resetsIssued>>
  ELSE /\ issued < MaxCalls
       /\ chat' = Append(addUserMessage(chat, message), TypingElement)
       /\ issued' = issued + 1
       /\ inflight' = inflight \cup {Call(issued + 1, message, "form")}
       /\ ev' = [NoEvent EXCEPT !.op = "submit", !.text = message,
                                !.call = issued + 1, !.origin = "form",
                                !.steps = <<"userTurn", "indicator", "call">>]
       /\ UNCHANGED <<selectedOptions, panelHidden, entityDisplay, resetsInflight,
                      resetsIssued>>

\* the callbacks with a catch that sends the message again
MessageResponseRetries(call, outcome) ==
  \E r \in {MessageSettled(chat, panelHidden, entityDisplay, outcome)} :
  /\ call \in inflight
  /\ Widgets(r.chat) <= MaxWidgets
  /\ IF ~Parsed(outcome) /\ issued < MaxCalls
     THEN /\ issued' = issued + 1
          /\ inflight' = (inflight \ {call}) \cup {Call(issued + 1, call.message, call.origin)}
     ELSE /\ inflight' = inflight \ {call}
          /\ UNCHANGED issued
  /\ chat' = r.chat
  /\ panelHidden' = r.hidden
  /\ entityDisplay' = r.display
  /\ ev' = [NoEvent EXCEPT !.op = "response", !.steps = r.steps, !.call = call.id,
                           !.origin = call.origin, !.text = call.message,
                           !.outcome = outcome]
  /\ UNCHANGED <<selectedOptions, resetsInflight, resetsIssued>>

\* a fetch('/message') settles and its callbacks run
MessageResponse(call, outcome) ==
  \E r \in {MessageSettled(chat, panelHidden, entityDisplay, outcome)} :
  /\ call \in inflight
  /\ Widgets(r.chat) <= MaxWidgets
  /\ inflight' = inflight \ {call}
  /\ chat' = r.chat
  /\ panelHidden' = r.hidden
  /\ entityDisplay' = r.display
  /\ ev' = [NoEvent EXCEPT !.op = "response", !.steps = r.steps, !.call = call.id,
                           !.origin = call.origin, !.text = call.message,
                           !.outcome = outcome]
  /\ UNCHANGED <<selectedOptions, resetsInflight, issued, resetsIssued>>

\* resetBtn 'click': confirm(), then fetch('/reset')
ResetClick(accepted) ==
  /\ IF accepted
     THEN /\ resetsIssued < MaxResets
          /\ resetsIssued' = resetsIssued + 1
          /\ resetsInflight' = resetsInflight + 1
          /\ ev' = [NoEvent EXCEPT !.op = "resetClick", !.steps = <<"call">>]
     ELSE /\ ev' = [NoEvent EXCEPT !.op = "resetClick"]
          /\ UNCHANGED <<resetsInflight, resetsIssued>>
  /\ UNCHANGED <<chat, selectedOptions, panelHidden, entityDisplay, inflight, issued>>

\* the callbacks of the reset with a selectedOptions.clear() in them
ResetResponseClears(outcome) ==
  \E r \in {ResetSettled(chat, panelHidden, outcome)} :
  /\ resetsInflight > 0
  /\ resetsInflight' = resetsInflight - 1
  /\ chat' = r.chat
  /\ panelHidden' = r.hidden
  /\ selectedOptions' = <<>>
  /\ ev' = [NoEvent EXCEPT !.op = "resetResponse", !.steps = r.steps,
                           !.outcome = outcome]
  /\ UNCHANGED <<entityDisplay, inflight, issued, resetsIssued>>

\* a fetch('/reset') settles and its callbacks run
ResetResponse(outcome) ==
  \E r \in {ResetSettled(chat, panelHidden, outcome)} :
  /\ resetsInflight > 0
  /\ resetsInflight' = resetsInflight - 1
  /\ chat' = r.chat
  /\ panelHidden' = r.hidden
  /\ ev' = [NoEvent EXCEPT !.op = "resetResponse", !.steps = r.steps,
                           !.outcome = outcome]
  /\ UNCHANGED <<selectedOptions, entityDisplay, inflight, issued, resetsIssued>>

\* document 'click' on the checkbox of an option control. The browser has
\* flipped the checkbox when the listener runs, so e.target.checked is the
\* new value; e.preventDefault() cancels the click, upon which the browser
\* restores the old value (restored), or leaves the new one where the event
\* cannot be cancelled.
CheckboxClick(place, restored) ==
  LET option == OptionAt(chat, place)
      checked == ~option.checked
  IN /\ selectedOptions' = Toggle(selectedOptions, option.number, checked)
     /\ chat' = SetChecked(chat, place, IF restored THEN option.checked ELSE checked)
     /\ ev' = [NoEvent EXCEPT !.op = "checkbox", !.number = option.number,
                              !.checked = checked]
     /\ UNCHANGED <<panelHidden, entityDisplay, inflight, resetsInflight, issued,
                    resetsIssued>>

\* document 'click' on a #select-all button
SelectAllClick(i) ==
  \E r \in {SelectAllFrom(chat, selectedOptions, OptionPlaces(chat), AllChecked(chat))} :
  /\ chat[i].selectAll > 0
  /\ chat' = r.chat
  /\ selectedOptions' = r.set
  /\ ev' = [NoEvent EXCEPT !.op = "selectAll", !.checked = ~AllChecked(chat)]
  /\ UNCHANGED <<panelHidden, entityDisplay, inflight, resetsInflight, issued,
                 resetsIssued>>

\* the submit-selection branch without its size test
ConfirmClickUnchecked(i) ==
  LET selectionText == SelectionText(selectedOptions) IN
  /\ chat[i].submit > 0
  /\ issued < MaxCalls
  /\ chat' = addUserMessage(chat, selectionText)
  /\ issued' = issued + 1
  /\ inflight' = inflight \cup {Call(issued + 1, selectionText, "confirm")}
  /\ selectedOptions' = <<>>
  /\ ev' = [NoEvent EXCEPT !.op = "confirm", !.text = selectionText,
                           !.call = issued + 1, !.origin = "confirm",
                           !.steps = <<"userTurn", "call", "clearSelection">>]
  /\ UNCHANGED <<panelHidden, entityDisplay, resetsInflight, resetsIssued>>

\* the submit-selection branch with a selection of its own for each widget:
\* the ids checked in the widget of the button
ConfirmClickOwnWidget(i) ==
  LET own == SelectSeq(selectedOptions,
                       LAMBDA n : \E j \in 1..Len(chat[i].options) :
                                    chat[i].options[j].number = n /\ chat[i].options[j].checked)
      selectionText == SelectionText(own)
  IN
  /\ chat[i].submit > 0
  /\ IF Len(own) = 0
     THEN /\ ev' = [NoEvent EXCEPT !.op = "confirm", !.steps = <<"alert">>]
          /\ UNCHANGED <<chat, selectedOptions, inflight, issued>>
     ELSE /\ issued < MaxCalls
          /\ chat' = addUserMessage(chat, selectionText)
          /\ issued' = issued + 1
          /\ inflight' = inflight \cup {Call(issued + 1, selectionText, "confirm")}
          /\ selectedOptions' = <<>>
          /\ ev' = [NoEvent EXCEPT !.op = "confirm", !.text = selectionText,
                                   !.call = issued + 1, !.origin = "confirm",
                                   !.steps = <<"userTurn", "call", "clearSelection">>]
  /\ UNCHANGED <<panelHidden, entityDisplay, resetsInflight, resetsIssued>>

\* document 'click' on a #submit-selection button
ConfirmClick(i) ==
  LET selectionText == SelectionText(selectedOptions) IN
  /\ chat[i].submit > 0
  /\ IF Len(selectedOptions) = 0
     THEN /\ ev' = [NoEvent EXCEPT !.op = "confirm", !.steps = <<"alert">>]
          /\ UNCHANGED <<chat, selectedOptions, inflight, issued>>
     ELSE /\ issued < MaxCalls
          /\ chat' = addUserMessage(chat, selectionText)
          /\ issued' = issued + 1
          /\ inflight' = inflight \cup {Call(issued + 1, selectionText, "confirm")}
          /\ selectedOptions' = <<>>
          /\ ev' = [NoEvent EXCEPT !.op = "confirm", !.text = selectionText,
                                   !.call = issued + 1, !.origin = "confirm",
                                   !.steps = <<"userTurn", "call", "clearSelection">>]
  /\ UNCHANGED <<panelHidden, entityDisplay, resetsInflight, resetsIssued>>

\* the option-click branch updating the Set from the state the checkbox had
\* before the flip
OptionClickStale(place) ==
  LET option == OptionAt(chat, place)
      checked == ~option.checked
  IN /\ chat' = SetChecked(chat, place, checked)
     /\ selectedOptions' = Toggle(selectedOptions, option.number, option.checked)
     /\ ev' = [NoEvent EXCEPT !.op = "option", !.number = option.number,
                              !.checked = checked]
     /\ UNCHANGED <<panelHidden, entityDisplay, inflight, resetsInflight, issued,
                    resetsIssued>>

\* document 'click' on an option control outside its checkbox
OptionClick(place) ==
  LET option == OptionAt(chat, place)
      checked == ~option.checked
  IN /\ chat' = SetChecked(chat, place, checked)
     /\ selectedOptions' = Toggle(selectedOptions, option.number, checked)
     /\ ev' = [NoEvent EXCEPT !.op = "option", !.number = option.number,
                              !.checked = checked]
     /\ UNCHANGED <<panelHidden, entityDisplay, inflight, resetsInflight, issued,
                    resetsIssued>>

Places == {OptionPlaces(chat)[k] : k \in 1..Len(OptionPlaces(chat))}

Next ==
  \/ \E value \in FormValues : Submit(value)
  \/ \E call \in inflight, outcome \in MessageOutcomes : MessageResponse(call, outcome)
  \/ \E accepted \in BOOLEAN : ResetClick(accepted)
  \/ \E outcome \in ResetOutcomes : ResetResponse(outcome)
  \/ \E place \in Places, restored \in BOOLEAN : CheckboxClick(place, restored)
  \/ \E i \in 1..Len(chat) : SelectAllClick(i)
  \/ \E i \in 1..Len(chat) : ConfirmClick(i)
  \/ \E place \in Places : OptionClick(place)

Spec == Init /\ [][Next]_vars

----------------------------------------------------------------------------
(* The specifications below run the same handlers on fewer inputs. Those    *)
(* that need no third call take a step that issues a fetch('/message') only *)
(* while it leaves one call of the bound unissued.                          *)

LeavesCall(issues) == ~issues \/ issued + 1 < MaxCalls

----------------------------------------------------------------------------
(* The formatter on its own: one turn whose answer is any of FmtInputs and  *)
(* ClassInputs.                                                             *)

FmtOutcomes ==
  { Resolved(200, "json", [response |-> m, entities |-> NoEntities, complete |-> FALSE]) :
      m \in FmtInputs \cup ClassInputs }

NextFmt ==
  \/ issued = 0 /\ Submit(HiText)
  \/ \E call \in inflight, outcome \in FmtOutcomes : MessageResponse(call, outcome)

SpecFmt == Init /\ [][NextFmt]_vars

----------------------------------------------------------------------------
(* The selection widget on its own: form turns answered with the prompt,    *)
(* and the four click branches. A prompt arrives while at most one widget   *)
(* is rendered, so that a superseded widget and its successor are there and *)
(* the clicks on them stay enumerable when more calls are issued.           *)

SelectionOutcomes ==
  { Resolved(200, "json",
             [response |-> PromptAB, entities |-> NoEntities, complete |-> FALSE]) }

NextSelection ==
  \/ LeavesCall(TRUE) /\ Submit(HiText)
  \/ \E call \in inflight, outcome \in SelectionOutcomes :
       Widgets(chat) <= 1 /\ MessageResponse(call, outcome)
  \/ \E place \in Places, restored \in BOOLEAN : CheckboxClick(place, restored)
  \/ \E i \in 1..Len(chat) : SelectAllClick(i)
  \/ \E i \in 1..Len(chat) : LeavesCall(selectedOptions # <<>>) /\ ConfirmClick(i)
  \/ \E place \in Places : OptionClick(place)

SpecSelection == Init /\ [][NextSelection]_vars

----------------------------------------------------------------------------
(* The turn cycle on its own: form and confirm turns, answered in every way *)
(* a fetch settles, with one body of each shape.                            *)

TurnBodies ==
  { [response |-> OkText, entities |-> NoEntities, complete |-> FALSE],
    [response |-> OkText, entities |-> DateEntities, complete |-> TRUE],
    [response |-> OkText, entities |-> StringEntities, complete |-> FALSE],
    [response |-> PromptAB, entities |-> NoEntities, complete |-> FALSE],
    [response |-> NotAString, entities |-> NoEntities, complete |-> FALSE] }

TurnOutcomes ==
  { [NoOutcome EXCEPT !.net = "reject"] }
  \cup { Resolved(st, "malformed", NoOutcome) : st \in {200, 500} }
  \cup { Resolved(200, "json", d) : d \in TurnBodies }
  \cup { Resolved(500, "json", d) : d \in ErrorBodies }

NextTurn ==
  \/ \E value \in FormValues : LeavesCall(Trim(value) # <<>>) /\ Submit(value)
  \/ \E call \in inflight, outcome \in TurnOutcomes : MessageResponse(call, outcome)
  \/ \E i \in 1..Len(chat) : LeavesCall(selectedOptions # <<>>) /\ ConfirmClick(i)
  \/ \E place \in Places : OptionClick(place)

SpecTurn == Init /\ [][NextTurn]_vars

----------------------------------------------------------------------------
(* The reset on its own: form turns that fail or bring a prompt with        *)
(* entities, option clicks, and accepted resets that fail, succeed, or      *)
(* bring a body without a response text. A prompt arrives only while no     *)
(* widget is rendered.                                                      *)

ResetTurnOutcomes ==
  { [NoOutcome EXCEPT !.net = "reject"],
    Resolved(200, "json",
             [response |-> PromptAB, entities |-> DateEntities, complete |-> TRUE]) }

ResetAnswers ==
  { [NoOutcome EXCEPT !.net = "reject"] }
  \cup { Resolved(200, "json", [response |-> r, entities |-> NoEntities,
                                complete |-> FALSE]) : r \in {GreetingText, NotAString} }

NextReset ==
  \/ LeavesCall(TRUE) /\ Submit(HiText)
  \/ \E call \in inflight, outcome \in ResetTurnOutcomes :
       (Widgets(chat) = 0 \/ ~Parsed(outcome)) /\ MessageResponse(call, outcome)
  \/ ResetClick(TRUE)
  \/ \E outcome \in ResetAnswers : ResetResponse(outcome)
  \/ \E place \in Places : OptionClick(place)

SpecReset == Init /\ [][NextReset]_vars

----------------------------------------------------------------------------
(* The entity panel on its own: form turns answered with a plain text and   *)
(* every entity payload under either value of complete, and resets that     *)
(* succeed.                                                                 *)

\* a mapping with two non-empty value lists, ATTENDEE ahead of DATE
MeetingEntities ==
  [present |-> TRUE,
   entries |-> <<[type |-> "ATTENDEE", isArray |-> TRUE, values |-> <<"Ann", "Bob">>],
                 [type |-> "DATE", isArray |-> TRUE, values |-> <<"Friday">>]>>]

PanelOutcomes ==
  { Resolved(200, "json", d) :
      d \in [response : {OkText}, entities : EntityPayloads \cup {MeetingEntities},
             complete : BOOLEAN] }

NextPanel ==
  \/ LeavesCall(TRUE) /\ Submit(HiText)
  \/ \E call \in inflight, outcome \in PanelOutcomes : MessageResponse(call, outcome)
  \/ ResetClick(TRUE)
  \/ ResetResponse(Resolved(200, "json", [response |-> GreetingText,
                                          entities |-> NoEntities, complete |-> FALSE]))

SpecPanel == Init /\ [][NextPanel]_vars

----------------------------------------------------------------------------
(* A superseded widget next to its successor: form turns answered with the  *)
(* prompt while at most one widget is rendered, option clicks and confirm   *)
(* clicks, with every call of the bound.                                    *)

NextShared ==
  \/ Submit(HiText)
  \/ \E call \in inflight, outcome \in SelectionOutcomes :
       Widgets(chat) <= 1 /\ MessageResponse(call, outcome)
  \/ \E i \in 1..Len(chat) : ConfirmClick(i)
  \/ \E place \in Places : OptionClick(place)

SpecShared == Init /\ [][NextShared]_vars

----------------------------------------------------------------------------
(* Properties. A property of a handler is stated over the step the handler  *)
(* takes: ev' names the handler that ran, the unprimed variables are the    *)
(* state it found.                                                          *)

\* the ids held by the Set
----------------------------------------------------------------------------
(* The typing indicator on its own: form and confirm turns, answered with   *)
(* the prompt while no widget is rendered or with a failure of each kind    *)
(* (the fetch rejects, updateEntityPanel throws, addBotMessage throws),     *)
(* option clicks, and resets that succeed.                                  *)

IndicatorFailures ==
  { [NoOutcome EXCEPT !.net = "reject"],
    Resolved(200, "json",
             [response |-> OkText, entities |-> StringEntities, complete |-> FALSE]),
    Resolved(200, "json",
             [response |-> NotAString, entities |-> NoEntities, complete |-> FALSE]) }

NextIndicator ==
  \/ LeavesCall(TRUE) /\ Submit(HiText)
  \/ \E call \in inflight, outcome \in SelectionOutcomes :
       Widgets(chat) = 0 /\ MessageResponse(call, outcome)
  \/ \E call \in inflight, outcome \in IndicatorFailures : MessageResponse(call, outcome)
  \/ \E i \in 1..Len(chat) : LeavesCall(selectedOptions # <<>>) /\ ConfirmClick(i)
  \/ \E place \in Places : OptionClick(place)
  \/ ResetClick(TRUE)
  \/ ResetResponse(Resolved(200, "json", [response |-> GreetingText,
                                          entities |-> NoEntities, complete |-> FALSE]))

SpecIndicator == Init /\ [][NextIndicator]_vars

Members(set) == {set[k] : k \in 1..Len(set)}

\* the bot message element of the apology of sendMessage's catch
ApologyElement == BotElement(formatEmailSelectionMessage(MessageApology))

\* C1: a confirm click on a non-empty selection joins the ids with " and ",
\* appends exactly one user message with that text, issues exactly one call
\* to the message endpoint carrying that text, and leaves the set empty.
ConfirmSubmitsSelection ==
  [][(ev'.op = "confirm" /\ Len(selectedOptions) > 0) =>
       LET text == Join(selectedOptions, <<" ", "a", "n", "d", " ">>) IN
       /\ chat' = Append(chat, UserElement(text))
       /\ issued' = issued + 1
       /\ \E call \in inflight' :
            /\ call \notin inflight
            /\ inflight' = inflight \cup {call}
            /\ call.message = text
       /\ selectedOptions' = <<>>]_vars

\* both options of a prompt checked, then confirmed: "1 and 2" is the last
\* user message and the message of an outstanding call, and the set is empty
ConfirmedOneAndTwo ==
  /\ ev.op = "confirm"
  /\ ev.text = <<"1", " ", "a", "n", "d", " ", "2">>
  /\ chat[Len(chat)] = UserElement(ev.text)
  /\ \E call \in inflight : call.message = ev.text /\ call.origin = "confirm"
  /\ selectedOptions = <<>>

\* C2: a confirm click on an empty selection raises the alert and changes
\* nothing: no call is issued, nothing is appended to the chat, and the set,
\* the chat and the entity panel are as before.
ConfirmEmptyOnlyAlerts ==
  [][(ev'.op = "confirm" /\ Len(selectedOptions) = 0) =>
       /\ ev'.steps = <<"alert">>
       /\ UNCHANGED <<chat, selectedOptions, panelHidden, entityDisplay, inflight,
                      issued, resetsInflight, resetsIssued>>]_vars

\* the alert was raised under a rendered prompt with nothing checked
AlertedOnEmptySelection ==
  /\ ev.op = "confirm"
  /\ ev.steps = <<"alert">>
  /\ selectedOptions = <<>>
  /\ RenderedNumbers(chat) = {<<"1">>, <<"2">>}
  /\ inflight = {}

\* C3: every id in the selection set is the id of a rendered option control.
SelectionWithinRendered == Members(selectedOptions) \subseteq RenderedNumbers(chat)

\* C4: the message of section 8 is rendered as exactly two option controls,
\* with the ids 1 and 2, one select-all button and one confirm button.
JaneRendersTwoOptions ==
  (ev.op = "response" /\ ev.outcome.response = JaneMsg) =>
    LET widget == chat[Len(chat)] IN
    /\ Len(widget.options) = 2
    /\ widget.options[1].number = <<"1">>
    /\ widget.options[2].number = <<"2">>
    /\ widget.selectAll = 1
    /\ widget.submit = 1

\* C5: the option controls of a rendered selection prompt are as many as the
\* lines of its option block that hold ". ": a line without it gives none.
LinesWithoutDelimiterDropped ==
  (ev.op = "response" /\ ev.outcome.response \in FmtInputs) =>
    LET lines == OptionLines(ev.outcome.response)
        parsed == {k \in 1..Len(lines) : Includes(lines[k], <<".", " ">>)}
    IN Len(chat[Len(chat)].options) = Cardinality(parsed)

\* C6: a select-all click that finds a box unchecked leaves every rendered
\* box checked and every rendered id in the set; one that finds every box
\* checked leaves none checked and no rendered id in the set; so the click
\* after a click that checked the boxes leaves none checked.
SelectAllToggles ==
  [][(ev'.op = "selectAll") =>
       LET places == OptionPlaces(chat')
           noneChecked == \A k \in 1..Len(places) : ~OptionAt(chat', places[k]).checked
       IN /\ RenderedNumbers(chat') = RenderedNumbers(chat)
          /\ IF AllChecked(chat)
             THEN /\ noneChecked
                  /\ RenderedNumbers(chat') \cap Members(selectedOptions') = {}
             ELSE /\ AllChecked(chat')
                  /\ RenderedNumbers(chat') \subseteq Members(selectedOptions')
          /\ (ev.op = "selectAll" /\ ev.checked) => noneChecked]_vars

\* a select-all click that found both boxes checked has unchecked them
SelectAllUnchecked ==
  /\ ev.op = "selectAll"
  /\ ~ev.checked
  /\ RenderedNumbers(chat) = {<<"1">>, <<"2">>}
  /\ \A k \in 1..Len(OptionPlaces(chat)) : ~OptionAt(chat, OptionPlaces(chat)[k]).checked
  /\ selectedOptions = <<>>

\* C7: a checkbox click with the box checked puts the option's id in the set,
\* with the box unchecked takes it out, leaves the membership of every other
\* id alone, and the same toggle applied again changes nothing.
ToggleSetsMembership ==
  [][(ev'.op = "checkbox") =>
       /\ SetHas(selectedOptions', ev'.number) <=> ev'.checked
       /\ Members(selectedOptions') \ {ev'.number} = Members(selectedOptions) \ {ev'.number}
       /\ Len(selectedOptions') = Cardinality(Members(selectedOptions'))
       /\ Toggle(selectedOptions', ev'.number, ev'.checked) = selectedOptions']_vars

\* a checkbox click has put a second id next to the one in the set
ToggledSecondIn ==
  /\ ev.op = "checkbox"
  /\ ev.checked
  /\ ev.number = <<"2">>
  /\ selectedOptions = << <<"1">>, <<"2">> >>

\* C8: a turn submitted through the form appends the user message, then the
\* typing indicator, then issues the call; when the call is answered with
\* status 200 and a well-formed body, the indicator is removed (the first
\* one still rendered), then the bot message is appended, then the entity
\* panel is refreshed, the last only if the body carries a non-empty entity
\* mapping. No more indicators stay than form calls are outstanding.
TurnStepsInOrder ==
  [][/\ (ev'.op = "submit" /\ ev'.call # 0) =>
          /\ ev'.steps = <<"userTurn", "indicator", "call">>
          /\ chat' = chat \o <<UserElement(ev'.text), TypingElement>>
          /\ inflight' = inflight \cup {Call(ev'.call, ev'.text, "form")}
          /\ ev'.call \notin {call.id : call \in inflight}
     /\ (/\ ev'.op = "response"
         /\ ev'.origin = "form"
         /\ Parsed(ev'.outcome)
         /\ ev'.outcome.status = 200
         /\ IsString(ev'.outcome.response)
         /\ \A k \in 1..Len(ev'.outcome.entities.entries) :
              ev'.outcome.entities.entries[k].isArray) =>
          LET shown == TypingPlaces(chat) # {}
              refreshed == Len(ev'.outcome.entities.entries) > 0
              rest == IF shown THEN RemoveAt(chat, FirstTyping(chat)) ELSE chat
          IN /\ ev'.steps = (IF shown THEN <<"removeIndicator">> ELSE <<>>)
                              \o <<"botTurn">>
                              \o (IF refreshed THEN <<"entityRefresh">> ELSE <<>>)
             /\ chat' = Append(rest, BotElement(formatEmailSelectionMessage(ev'.outcome.response)))
             /\ refreshed => ~panelHidden'
             /\ ~refreshed => UNCHANGED <<panelHidden, entityDisplay>>
             /\ Cardinality(TypingPlaces(chat'))
                  <= Cardinality({call \in inflight' : call.origin = "form"})]_vars

\* the answer to a form turn took all three steps: no indicator is left,
\* the bot message is the last element and the panel shows the DATE group
\* and the completion mark
TurnAnsweredWithEntities ==
  /\ ev.op = "response"
  /\ ev.origin = "form"
  /\ ev.outcome.status = 200
  /\ ev.steps = <<"removeIndicator", "botTurn", "entityRefresh">>
  /\ TypingPlaces(chat) = {}
  /\ chat[Len(chat)] = BotElement(formatEmailSelectionMessage(OkText))
  /\ ~panelHidden
  /\ entityDisplay = <<GroupElement(DateEntities.entries[1]), CompleteElement>>

\* C9: when the fetch of a message call rejects or its body does not parse,
\* the first typing indicator is removed, the apology is appended as the bot
\* message and nothing else is, and the entity panel and the selection set
\* are as before; the same holds for a body that parses and has no response
\* text, where the catch removes a second indicator.
FailureRendersApology ==
  [][(/\ ev'.op = "response"
      /\ ~(Parsed(ev'.outcome) /\ IsString(ev'.outcome.response))) =>
       /\ chat' = Append(IF Parsed(ev'.outcome)
                         THEN removeTypingIndicator(removeTypingIndicator(chat))
                         ELSE removeTypingIndicator(chat),
                         ApologyElement)
       /\ UNCHANGED <<panelHidden, entityDisplay, selectedOptions>>]_vars

\* a form call has failed on a malformed body while an id was selected: the
\* indicator is gone, the apology is last, the id is still in the set
FailedWithSelection ==
  /\ ev.op = "response"
  /\ ev.outcome.net = "resolve"
  /\ ev.outcome.body = "malformed"
  /\ ev.steps = <<"removeIndicator", "apology">>
  /\ TypingPlaces(chat) = {}
  /\ chat[Len(chat)] = ApologyElement
  /\ selectedOptions = << <<"1">> >>

\* C10: an answer with a status outside 2xx is handled as a failure: the
\* apology is the bot message, and neither the response text nor the
\* entities of the body are rendered.
NonOkStatusIsFailure ==
  (ev.op = "response" /\ ev.outcome.net = "resolve" /\ ev.outcome.status = 500) =>
    /\ chat[Len(chat)] = ApologyElement
    /\ \A k \in 1..Len(ev.steps) : ev.steps[k] \notin {"botTurn", "entityRefresh"}

\* C11: no call is issued again. A step raises the number of message calls
\* only by one, and only as a form submission of a non-empty message or a
\* confirm click on a non-empty selection, each of which issues one call;
\* the callbacks of a call, failed or not, take the call off the outstanding
\* ones and issue none.
NoRetry ==
  [][/\ issued' # issued =>
          /\ issued' = issued + 1
          /\ ev'.op \in {"submit", "confirm"}
          /\ ev'.call = issued'
          /\ Cardinality(inflight') = Cardinality(inflight) + 1
     /\ (ev'.op = "submit" /\ Trim(ev'.text) # <<>>) => issued' = issued + 1
     /\ (ev'.op = "confirm" /\ Len(selectedOptions) > 0) => issued' = issued + 1
     /\ ev'.op = "response" =>
          /\ issued' = issued
          /\ inflight' \subseteq inflight
          /\ Cardinality(inflight') = Cardinality(inflight) - 1]_vars

\* the only call issued has failed on a rejected fetch, and none is
\* outstanding after its catch
FailedAndNotSentAgain ==
  /\ ev.op = "response"
  /\ ev.outcome.net = "reject"
  /\ ev.steps = <<"removeIndicator", "apology">>
  /\ issued = 1
  /\ inflight = {}

\* C12: a form submission of an empty or white-space-only value changes
\* nothing: no user message and no typing indicator are appended, no call
\* is issued, and the chat, the entity panel and the selection set are as
\* before.
EmptySubmitIsNoOp ==
  [][(ev'.op = "submit" /\ Trim(ev'.text) = <<>>) =>
       /\ ev'.steps = <<>>
       /\ UNCHANGED <<chat, selectedOptions, panelHidden, entityDisplay, inflight,
                      issued, resetsInflight, resetsIssued>>]_vars

\* white space was submitted under a visible panel and a rendered prompt
\* with an id selected
SubmittedWhiteSpace ==
  /\ ev.op = "submit"
  /\ ev.text = <<" ", " ">>
  /\ ev.call = 0
  /\ ~panelHidden
  /\ selectedOptions = << <<"1">> >>

\* the user and bot messages of the container, without the typing
\* indicators and without the state of the checkboxes
Turns(c) ==
  LET turns == SelectSeq(c, LAMBDA e : e.kind # "typing") IN
  [k \in 1..Len(turns) |->
     [kind |-> turns[k].kind, html |-> turns[k].html,
      options |-> [j \in 1..Len(turns[k].options) |->
                     [number |-> turns[k].options[j].number,
                      details |-> turns[k].options[j].details]]]]

IsPrefix(a, b) == Len(a) <= Len(b) /\ SubSeq(b, 1, Len(a)) = a

\* C13: the user and bot messages are append-only: no step removes or
\* changes one that is rendered; only typing indicators are deleted.
TranscriptAppendOnly == [][IsPrefix(Turns(chat), Turns(chat'))]_vars

\* C13, amended: every step but the then-callback of a reset leaves the
\* rendered user and bot messages in place and unchanged and deletes at most
\* one or two typing indicators; the then-callback of a reset deletes every
\* element of the container, messages and indicators, and appends one bot
\* message.
TranscriptAppendOnlyButReset ==
  [][IF ev'.op = "resetResponse" /\ Parsed(ev'.outcome)
     THEN Len(chat') = 1 /\ chat'[1].kind = "bot"
     ELSE /\ IsPrefix(Turns(chat), Turns(chat'))
          /\ Len(chat') >= Len(chat) - 2]_vars

\* the then-callback of a reset whose body has no response text has deleted
\* the messages of a turn and left the reset apology alone in the container
ResetDeletedTurns ==
  /\ ev.op = "resetResponse"
  /\ ev.steps = <<"clearChat", "throw", "apology">>
  /\ issued > 0
  /\ chat = <<BotElement(formatEmailSelectionMessage(ResetApology))>>

\* C14: right after the callbacks of a reset whose call succeeded, the
\* container holds exactly one element, the bot message of the greeting the
\* server sent, and the entity panel is hidden.
ResetLeavesGreeting ==
  (ev.op = "resetResponse" /\ Parsed(ev.outcome) /\ IsString(ev.outcome.response)) =>
    /\ chat = <<BotElement(formatEmailSelectionMessage(ev.outcome.response))>>
    /\ panelHidden

\* a reset has succeeded after a turn that had filled the panel: the
\* greeting is alone in the container and the panel, not emptied, is hidden
ResetAfterTurn ==
  /\ ev.op = "resetResponse"
  /\ ev.steps = <<"clearChat", "botTurn", "hidePanel">>
  /\ chat = <<BotElement(formatEmailSelectionMessage(GreetingText))>>
  /\ panelHidden
  /\ entityDisplay # <<>>
  /\ issued > 0

\* C15: the selection set changes only in a checkbox click, an option click,
\* a select-all click or a confirm click: a form submission, the callbacks
\* of a message call and the reset handlers leave it as it is.
SelectionChangedByClicksOnly ==
  [][selectedOptions' # selectedOptions =>
       ev'.op \in {"checkbox", "option", "selectAll", "confirm"}]_vars

\* the callbacks of a failed reset have run with an id in the set, and the
\* id is still there
ResetFailedWithSelection ==
  /\ ev.op = "resetResponse"
  /\ ev.outcome.net = "reject"
  /\ selectedOptions = << <<"2">> >>
  /\ RenderedNumbers(chat) = {<<"1">>, <<"2">>}

\* the entity mapping of the body is absent or has no key
NoMapping(outcome) == ~outcome.entities.present \/ Len(outcome.entities.entries) = 0

\* the body parses, has a response text, and every value of its non-empty
\* entity mapping is an array
Refreshes(outcome) ==
  /\ Parsed(outcome)
  /\ IsString(outcome.response)
  /\ ~NoMapping(outcome)
  /\ \A k \in 1..Len(outcome.entities.entries) : outcome.entities.entries[k].isArray

\* C16: the callbacks of a call whose body has no entity mapping, or an
\* empty one, leave the panel as it was: hidden or not, with the same groups
\* and the same completion mark, whatever complete is.
PanelUntouchedWithoutEntities ==
  [][(ev'.op = "response" /\ Parsed(ev'.outcome) /\ NoMapping(ev'.outcome)) =>
       UNCHANGED <<panelHidden, entityDisplay>>]_vars

\* an empty mapping with complete set has arrived under a panel that shows
\* the DATE group without a completion mark, and the panel still shows that
EmptyMappingUnderDateGroup ==
  /\ ev.op = "response"
  /\ ev.outcome.entities = EmptyEntities
  /\ ev.outcome.complete
  /\ ~panelHidden
  /\ entityDisplay = <<GroupElement(DateEntities.entries[1])>>

\* C17: after a refresh with a non-empty mapping the panel is visible and
\* its groups are those of the entries of the new mapping whose value list
\* is not empty, one each, in the order of the mapping, and no other group.
PanelShowsNewMapping ==
  (ev.op = "response" /\ Refreshes(ev.outcome)) =>
    LET filled == SelectSeq(ev.outcome.entities.entries, LAMBDA e : Len(e.values) > 0)
        groups == SelectSeq(entityDisplay, LAMBDA d : d.kind = "group")
    IN /\ ~panelHidden
       /\ Len(groups) = Len(filled)
       /\ \A k \in 1..Len(groups) :
            groups[k].type = filled[k].type /\ groups[k].tags = filled[k].values

\* the second refresh of a run brought DATE: [Monday], ATTENDEE: [] and the
\* DATE group is the only group of the panel
SecondRefreshShowsDateOnly ==
  /\ ev.op = "response"
  /\ ev.call = 2
  /\ issued = 2
  /\ inflight = {}
  /\ ev.outcome.entities = DateEntities
  /\ ~ev.outcome.complete
  /\ entityDisplay = <<[kind |-> "group", type |-> "DATE", tags |-> <<"Monday">>]>>

\* C18: the panel never holds more than one completion mark: after a
\* refresh with complete set it holds one, after a refresh with complete
\* not set it holds none.
AtMostOneCompletion ==
  LET marks == Len(SelectSeq(entityDisplay, LAMBDA d : d.kind = "complete")) IN
  /\ marks <= 1
  /\ (ev.op = "response" /\ Refreshes(ev.outcome)) =>
       marks = (IF ev.outcome.complete THEN 1 ELSE 0)

\* the second refresh of a run had complete set and the panel holds its
\* group and one completion mark
SecondRefreshComplete ==
  /\ ev.op = "response"
  /\ ev.call = 2
  /\ issued = 2
  /\ inflight = {}
  /\ ev.outcome.complete
  /\ ev.outcome.entities = TimeEntities
  /\ entityDisplay = <<GroupElement(TimeEntities.entries[1]), CompleteElement>>

\* C19: a bot message is rendered in one of three ways, decided in this
\* order: with the selection widget when it holds both phrases of a
\* selection prompt; otherwise with the addresses marked up and nothing
\* escaped when it holds "@", "(" and ")"; otherwise as escaped text. A
\* message that holds both phrases and "@", "(" and ")" gets the widget.
ThreeClassesByPriority ==
  (ev.op = "response" /\ Parsed(ev.outcome) /\ IsString(ev.outcome.response)) =>
    LET message == ev.outcome.response
        rendered == chat[Len(chat)]
        rule1 == Includes(message, MultipleContacts) /\ Includes(message, PleaseSelect)
        rule2 == /\ Includes(message, <<"@">>)
                 /\ Includes(message, <<"(">>) /\ Includes(message, <<")">>)
        widget == rendered.selectAll = 1 /\ rendered.submit = 1 /\ Len(rendered.options) >= 1
        bare == rendered.selectAll = 0 /\ rendered.submit = 0 /\ rendered.options = <<>>
    IN /\ rendered.kind = "bot"
       /\ rule1 => widget
       /\ (~rule1 /\ rule2) => (bare /\ rendered.html = ReplaceEmails(message, 1))
       /\ (~rule1 /\ ~rule2) => (bare /\ rendered.html = EscapeText(message))

\* the message of section 8, which holds both phrases and "@", "(" and ")",
\* has been rendered with the selection widget
BothRulesRenderedAsPrompt ==
  /\ ev.op = "response"
  /\ ev.outcome.response = JaneMsg
  /\ IsEmailAnnotated(JaneMsg)
  /\ chat[Len(chat)].kind = "bot"
  /\ chat[Len(chat)].submit = 1
  /\ Len(chat[Len(chat)].options) = 3

\* C20: the intro of a rendered selection prompt is the text before the
\* first marker and its option controls are those of the lines of the whole
\* text after that marker.
OptionBlockIsAllAfterMarker ==
  (ev.op = "response" /\ Parsed(ev.outcome) /\ IsString(ev.outcome.response)
     /\ IsSelectionPrompt(ev.outcome.response)) =>
    LET message == ev.outcome.response
        at == IndexOf(message, PleaseSelect, 1)
        intro == SubSeq(message, 1, at - 1)
        block == SubSeq(message, at + Len(PleaseSelect), Len(message))
        lines == Split(Trim(block), Newline)
        rendered == chat[Len(chat)]
    IN /\ rendered.html = intro \o IntroHint
       /\ rendered.options = [k \in 1..Len(lines) |-> OptionControl(lines[k])]

\* C21: the option control of a line of the option block that holds ". "
\* has the text before the first ". " as its id and the whole rest of the
\* line after that first ". " as its details.
DetailsAreWholeRemainder ==
  (ev.op = "response" /\ ev.outcome.response \in FmtInputs) =>
    LET lines == OptionLines(ev.outcome.response)
        rendered == chat[Len(chat)]
    IN \A k \in 1..Len(lines) :
         Includes(lines[k], DotSpace) =>
           LET at == IndexOf(lines[k], DotSpace, 1) IN
           /\ k <= Len(rendered.options)
           /\ rendered.options[k].number = SubSeq(lines[k], 1, at - 1)
           /\ rendered.options[k].details =
                SubSeq(lines[k], at + Len(DotSpace), Len(lines[k]))

\* C22: a bot message that is neither a selection prompt nor email
\* annotated is rendered as its text with "&", "<" and ">" escaped, and
\* with no control.
PlainRendersEscaped ==
  (ev.op = "response" /\ Parsed(ev.outcome) /\ IsString(ev.outcome.response)
     /\ ~IsSelectionPrompt(ev.outcome.response)
     /\ ~IsEmailAnnotated(ev.outcome.response)) =>
    LET rendered == chat[Len(chat)] IN
    /\ rendered.kind = "bot"
    /\ rendered.html = Join([k \in 1..Len(ev.outcome.response) |->
                               EscapeChar(ev.outcome.response[k])], <<>>)
    /\ rendered.options = <<>>
    /\ rendered.selectAll = 0
    /\ rendered.submit = 0

\* the plain message "(x) <b>" has been rendered with its tag escaped
MarkupRenderedEscaped ==
  /\ ev.op = "response"
  /\ ev.outcome.response = MarkupMsg
  /\ chat[Len(chat)].html =
       <<"(","x",")"," ","&","l","t",";","b","&","g","t",";">>

\* C23: an email-annotated message in which the regular expression matches
\* nowhere is rendered as its escaped text.
UnmatchedEmailRendersEscaped ==
  (ev.op = "response" /\ Parsed(ev.outcome) /\ IsString(ev.outcome.response)
     /\ ~IsSelectionPrompt(ev.outcome.response)
     /\ IsEmailAnnotated(ev.outcome.response)
     /\ \A i \in 1..Len(ev.outcome.response) : ~MatchAt(ev.outcome.response, i).found) =>
    chat[Len(chat)].html = EscapeText(ev.outcome.response)

\* C24: while a fetch('/message') is outstanding, a typing indicator is in
\* the transcript.
IndicatorWhileOutstanding == inflight # {} => TypingPlaces(chat) # {}

\* C25: with two calls outstanding, the callbacks of an arriving response
\* remove one typing indicator, the earliest in the transcript, and append
\* one bot turn at the end, and change nothing else in the transcript.
OneIndicatorPerResponse ==
  [][(ev'.op = "response" /\ Cardinality(inflight) >= 2) =>
       /\ TypingPlaces(chat) # {}
       /\ chat'[Len(chat')].kind = "bot"
       /\ chat' = Append(RemoveAt(chat, FirstTyping(chat)), chat'[Len(chat')])]_vars

\* C30: the callbacks of a settled fetch('/message') append one bot turn,
\* whatever the entities of the body are.
OneBotTurnPerResponse ==
  [][(ev'.op = "response") =>
       Len(SelectSeq(chat', LAMBDA e : e.kind = "bot"))
         = Len(SelectSeq(chat, LAMBDA e : e.kind = "bot")) + 1]_vars

\* C26: the rendering of a prompt leaves the selection set as it is, and a
\* confirm click submits every id of the set and nothing else, whichever
\* widget the ids were checked in and whichever widget's button is clicked.
SelectionSharedByWidgets ==
  [][/\ (ev'.op = "response") => selectedOptions' = selectedOptions
     /\ (ev'.op = "confirm" /\ selectedOptions # <<>>) =>
          /\ Members(Split(ev'.text, AndWord)) = Members(selectedOptions)
          /\ \E call \in inflight' \ inflight : call.message = ev'.text]_vars

\* two widgets are rendered, option 1 is checked in the first and nothing
\* in the last, and the confirm click has submitted "1"
StaleIdSubmitted ==
  LET widgets == {k \in 1..Len(chat) : chat[k].submit > 0}
      first == CHOOSE k \in widgets : \A m \in widgets : k <= m
      last == CHOOSE k \in widgets : \A m \in widgets : m <= k
  IN /\ ev.op = "confirm"
     /\ ev.text = <<"1">>
     /\ Cardinality(widgets) = 2
     /\ chat[first].options[1].number = <<"1">>
     /\ chat[first].options[1].checked
     /\ \A j \in 1..Len(chat[last].options) : ~chat[last].options[j].checked
     /\ chat[Len(chat)] = UserElement(<<"1">>)

\* C27: an id is in the selection set exactly if a rendered option control
\* with that id has its checkbox checked.
SelectionMatchesCheckboxes ==
  \A n \in Members(selectedOptions) \cup RenderedNumbers(chat) :
    SetHas(selectedOptions, n) <=>
      \E k \in 1..Len(OptionPlaces(chat)) :
        /\ OptionAt(chat, OptionPlaces(chat)[k]).number = n
        /\ OptionAt(chat, OptionPlaces(chat)[k]).checked

\* C28: the selection set holds each id once, in the order of insertion: a
\* click keeps the ids that stay in their order and puts the ids it adds
\* after them; and the text a confirm click submits lists the ids of the
\* set in that order.
InsertionOrderSubmitted ==
  [][/\ Len(selectedOptions') = Cardinality(Members(selectedOptions'))
     /\ (ev'.op \in {"checkbox", "option", "selectAll"}) =>
          LET kept == SelectSeq(selectedOptions, LAMBDA n : SetHas(selectedOptions', n)) IN
          /\ Len(kept) <= Len(selectedOptions')
          /\ SubSeq(selectedOptions', 1, Len(kept)) = kept
     /\ (ev'.op = "confirm" /\ selectedOptions # <<>>) =>
          Split(ev'.text, AndWord) = selectedOptions]_vars

\* option 2 was checked ahead of option 1, and the confirm click has
\* submitted "2 and 1"
ConfirmedTwoAndOne ==
  /\ ev.op = "confirm"
  /\ ev.text = <<"2", " ", "a", "n", "d", " ", "1">>
  /\ chat[Len(chat)] = UserElement(ev.text)
  /\ \E call \in inflight : call.message = ev.text /\ call.origin = "confirm"

\* C29: the typing indicators in the transcript are never more than the
\* fetch('/message') calls outstanding; with no call outstanding there is
\* no indicator.
IndicatorsWithinOutstanding ==
  Cardinality(TypingPlaces(chat)) <= Cardinality(inflight)

\* in a run with a settled reset, the fetch of a confirm click has rejected:
\* the catch found no indicator to remove, and no call is outstanding
ConfirmAnsweredAfterReset ==
  /\ ev.op = "response"
  /\ ev.origin = "confirm"
  /\ ev.steps = <<"apology">>
  /\ resetsIssued = 1
  /\ resetsInflight = 0
  /\ inflight = {}
  /\ TypingPlaces(chat) = {}

\* C31: the response of a call that was outstanding when a reset was
\* applied adds no turn to the transcript the reset left and leaves the
\* entity panel hidden.
ResetDropsStaleResponse ==
  [][(/\ ev.op = "resetResponse"
      /\ ev.steps = <<"clearChat", "botTurn", "hidePanel">>
      /\ ev'.op = "response") =>
       /\ Turns(chat') = Turns(chat)
       /\ panelHidden']_vars

\* C32: a click on an option control outside its checkbox flips the
\* checkbox of that control and of no other, puts the id of the control in
\* the selection set when the checkbox is now checked and takes it out when
\* it is not, and leaves every other id in or out of the set as it was.
OptionClickFlipsAndSets ==
  [][(ev'.op = "option") =>
       \E k \in 1..Len(OptionPlaces(chat)) :
         LET place == OptionPlaces(chat)[k]
             before == OptionAt(chat, place)
         IN /\ before.number = ev'.number
            /\ ev'.checked = ~before.checked
            /\ chat' = [chat EXCEPT ![place[1]].options[place[2]].checked = ~before.checked]
            /\ (\E j \in 1..Len(selectedOptions') : selectedOptions'[j] = before.number)
                 <=> ~before.checked
            /\ Members(selectedOptions') \ {before.number}
                 = Members(selectedOptions) \ {before.number}]_vars

\* a click has unchecked option 1 and taken its id out of the set, in which
\* the id of option 2 stays
OptionOneClickedOut ==
  /\ ev.op = "option"
  /\ ~ev.checked
  /\ ev.number = <<"1">>
  /\ selectedOptions = << <<"2">> >>

====
